---- MODULE Spec2Model ----
(***************************************************************************)
(* nomadutil: the release acquisition pipeline (releases::get) with the    *)
(* manifest parser and digest check (security.rs) and the three remote     *)
(* artifacts (artifacts.rs).                                               *)
(*                                                                         *)
(* Text is a sequence of one-character strings, bytes are 0..255.          *)
(***************************************************************************)
EXTENDS Integers, Sequences, FiniteSets, TLC

(***************************************************************************)
(* Bounds of the model.                                                    *)
(***************************************************************************)
\* A served manifest is MaxLines lines at most (joined with "\n").
MaxLines == 2
\* An acquisition with integrity checking disabled is made MaxCalls times at
\* most against the same server.
MaxCalls == 2

(***************************************************************************)
(* Text literals.                                                          *)
(***************************************************************************)
\* crate::ARCH, main.rs:27
ARCH == <<"a", "m", "d", "6", "4">>
\* the "linux" literal of security.rs:84
LINUX == <<"l", "i", "n", "u", "x">>
\* the ".zip" literal of security.rs:75
DOT_ZIP == <<".", "z", "i", "p">>
\* the entry name of releases.rs:120
NOMAD == <<"n", "o", "m", "a", "d">>

\* what char::is_whitespace accepts, as far as the served lines use it
Whitespace == {" ", "\t", "\r"}

(***************************************************************************)
(* str::split(sep): the pieces between separators, empty pieces kept.      *)
(***************************************************************************)
RECURSIVE Split(_, _)
Split(s, sep) ==
    IF \A i \in 1..Len(s) : s[i] # sep
    THEN <<s>>
    ELSE LET i == CHOOSE k \in 1..Len(s) :
                      s[k] = sep /\ \A j \in 1..(k - 1) : s[j] # sep
         IN  <<SubSeq(s, 1, i - 1)>> \o Split(SubSeq(s, i + 1, Len(s)), sep)

(***************************************************************************)
(* str::split_whitespace: the maximal runs of non-whitespace characters.   *)
(***************************************************************************)
RECURSIVE SplitWhitespace(_)
SplitWhitespace(s) ==
    IF s = <<>> THEN <<>>
    ELSE IF s[1] \in Whitespace THEN SplitWhitespace(Tail(s))
    ELSE LET stops == {k \in 1..Len(s) : s[k] \in Whitespace}
             n == IF stops = {} THEN Len(s) + 1
                  ELSE CHOOSE k \in stops : \A j \in stops : k <= j
         IN  <<SubSeq(s, 1, n - 1)>> \o SplitWhitespace(SubSeq(s, n, Len(s)))

(***************************************************************************)
(* str::trim_end_matches(pat): every trailing repetition of pat removed.   *)
(***************************************************************************)
RECURSIVE TrimEndMatches(_, _)
TrimEndMatches(s, pat) ==
    IF Len(pat) > 0 /\ Len(s) >= Len(pat)
       /\ SubSeq(s, Len(s) - Len(pat) + 1, Len(s)) = pat
    THEN TrimEndMatches(SubSeq(s, 1, Len(s) - Len(pat)), pat)
    ELSE s

\* lines joined with "\n", the text a server sends
RECURSIVE JoinLines(_)
JoinLines(lines) ==
    IF lines = <<>> THEN <<>>
    ELSE IF Len(lines) = 1 THEN lines[1]
    ELSE lines[1] \o <<"\n">> \o JoinLines(Tail(lines))

(***************************************************************************)
(* hex::decode and hex::encode.                                            *)
(***************************************************************************)
HexLower == <<"0", "1", "2", "3", "4", "5", "6", "7",
              "8", "9", "a", "b", "c", "d", "e", "f">>
HexUpper == <<"0", "1", "2", "3", "4", "5", "6", "7",
              "8", "9", "A", "B", "C", "D", "E", "F">>

\* the value of a hex digit with the upper-case digits forgotten
HexVal_lower_only(c) ==
    IF \E i \in 1..16 : HexLower[i] = c
    THEN (CHOOSE i \in 1..16 : HexLower[i] = c) - 1
    ELSE 0

IsHexChar(c) == \E i \in 1..16 : HexLower[i] = c \/ HexUpper[i] = c
HexVal(c) == (CHOOSE i \in 1..16 : HexLower[i] = c \/ HexUpper[i] = c) - 1

RECURSIVE HexPairs(_)
HexPairs(s) ==
    IF s = <<>> THEN <<>>
    ELSE <<16 * HexVal(s[1]) + HexVal(s[2])>> \o HexPairs(SubSeq(s, 3, Len(s)))

\* hex::decode: odd length is refused first, then any non-hex character
HexDecode(s) ==
    IF Len(s) % 2 # 0 THEN [ok |-> FALSE, err |-> "OddLength", val |-> <<>>]
    ELSE IF \E i \in 1..Len(s) : ~IsHexChar(s[i])
    THEN [ok |-> FALSE, err |-> "InvalidHexCharacter", val |-> <<>>]
    ELSE [ok |-> TRUE, err |-> "", val |-> HexPairs(s)]

RECURSIVE HexEncode(_)
HexEncode(bytes) ==
    IF bytes = <<>> THEN <<>>
    ELSE <<HexLower[(bytes[1] \div 16) + 1], HexLower[(bytes[1] % 16) + 1]>>
         \o HexEncode(Tail(bytes))

(***************************************************************************)
(* Sha256::digest (security.rs:120).  The hash is an external primitive;   *)
(* it is modelled as a deterministic function of the bytes with a two-byte *)
(* output (a byte sum and a position-weighted byte sum).  Altering one     *)
(* byte of the input always alters the first output byte.                  *)
(***************************************************************************)
RECURSIVE ByteSum(_)
ByteSum(bytes) ==
    IF bytes = <<>> THEN 0 ELSE bytes[1] + ByteSum(Tail(bytes))

RECURSIVE WeightedSum(_, _)
WeightedSum(bytes, i) ==
    IF bytes = <<>> THEN 0
    ELSE i * bytes[1] + WeightedSum(Tail(bytes), i + 1)

Sha256(bytes) == <<ByteSum(bytes) % 256, WeightedSum(bytes, 1) % 256>>

(***************************************************************************)
(* ZipArchive (releases.rs:107-122).  The container format is external; an *)
(* archive is modelled as  magic, entry count, then for each entry a       *)
(* length-prefixed name and length-prefixed data.  ZipArchive_new fails on *)
(* anything else (wrong magic, truncated or trailing bytes).               *)
(***************************************************************************)
Letters == <<"a", "b", "c", "d", "e", "f", "g", "h", "i", "j", "k", "l", "m",
             "n", "o", "p", "q", "r", "s", "t", "u", "v", "w", "x", "y", "z">>

\* the character of an ASCII code, and back
Chr(b) == IF b \in 97..122 THEN Letters[b - 96] ELSE "?"
Ord(c) == IF \E i \in 1..26 : Letters[i] = c
          THEN 96 + (CHOOSE i \in 1..26 : Letters[i] = c) ELSE 63

Utf8(s) == [i \in 1..Len(s) |-> Ord(s[i])]
Text(bytes) == [i \in 1..Len(bytes) |-> Chr(bytes[i])]

ZipMagic == <<80, 75>>

ZipEntryBytes(name, data) ==
    <<Len(name)>> \o Utf8(name) \o <<Len(data)>> \o data

RECURSIVE ZipEntriesBytes(_)
ZipEntriesBytes(files) ==
    IF files = <<>> THEN <<>>
    ELSE ZipEntryBytes(files[1].name, files[1].data)
         \o ZipEntriesBytes(Tail(files))

\* the bytes of an archive holding the given files, in order
ZipBytes(files) == ZipMagic \o <<Len(files)>> \o ZipEntriesBytes(files)

\* n entries read from the front of bytes; ok only if nothing is left over
RECURSIVE ZipReadEntries(_, _)
ZipReadEntries(bytes, n) ==
    IF n = 0
    THEN [ok |-> bytes = <<>>, files |-> <<>>]
    ELSE IF Len(bytes) < 1 \/ Len(bytes) < 1 + bytes[1] + 1
    THEN [ok |-> FALSE, files |-> <<>>]
    ELSE LET nl == bytes[1]
             dl == bytes[nl + 2]
         IN  IF Len(bytes) < nl + 2 + dl
             THEN [ok |-> FALSE, files |-> <<>>]
             ELSE LET rest == ZipReadEntries(
                                  SubSeq(bytes, nl + dl + 3, Len(bytes)), n - 1)
                      file == [name |-> Text(SubSeq(bytes, 2, nl + 1)),
                               data |-> SubSeq(bytes, nl + 3, nl + 2 + dl)]
                  IN  [ok |-> rest.ok,
                       files |-> IF rest.ok THEN <<file>> \o rest.files
                                 ELSE <<>>]

\* ZipArchive::new(Cursor::new(bytes))
ZipArchive_new(bytes) ==
    IF Len(bytes) < 3 \/ SubSeq(bytes, 1, 2) # ZipMagic
    THEN [ok |-> FALSE, files |-> <<>>]
    ELSE ZipReadEntries(SubSeq(bytes, 4, Len(bytes)), bytes[3])

(***************************************************************************)
(* Results.  An error is the anyhow message: its kind and the values       *)
(* formatted into it (texts).                                              *)
(***************************************************************************)
None == [some |-> FALSE, val |-> <<>>]
Some(v) == [some |-> TRUE, val |-> v]

\* an event of the log: its level and its message
Info(msg) == <<"info", msg>>
Warn(msg) == <<"warn", msg>>

Ok(v) == [ok |-> TRUE, val |-> v, err |-> "", ctx |-> <<>>]
Err(kind, ctx) == [ok |-> FALSE, val |-> <<>>, err |-> kind, ctx |-> ctx]

(***************************************************************************)
(* SumsChecker::new (security.rs:59-116): the scan of the manifest lines.  *)
(***************************************************************************)
\* the body of the loop for one line: continue with the next line, bail
\* with an error, or break with the decoded digest (which `?` turns into an
\* error when the field is not hex)                       (security.rs:62-102)
Continue == [step |-> "continue", out |-> Ok(<<>>)]
Bail(kind, ctx) == [step |-> "bail", out |-> Err(kind, ctx)]
Break(decoded) ==
    IF decoded.ok THEN [step |-> "break", out |-> Ok(decoded.val)]
    ELSE [step |-> "bail", out |-> Err(decoded.err, <<>>)]

\* ScanLine with a version mismatch skipped like a foreign platform
ScanLine_skip_mismatch(line, version) ==
    LET fields == SplitWhitespace(line)
    IN
    IF Len(line) = 0 THEN Continue
    ELSE IF Len(fields) # 2 THEN Bail("malformed sums line", <<line>>)
    ELSE LET artifact_fields == Split(TrimEndMatches(fields[2], DOT_ZIP), "_")
         IN
         IF Len(artifact_fields) # 4
         THEN Bail("malformed sums artifact name", <<fields[2]>>)
         ELSE IF artifact_fields[3] # LINUX THEN Continue
         ELSE IF artifact_fields[4] # ARCH THEN Continue
         ELSE IF artifact_fields[2] # version THEN Continue
         ELSE Break(HexDecode(fields[1]))

\* ScanLine without the test for the empty line
ScanLine_empty_not_skipped(line, version) ==
    LET fields == SplitWhitespace(line)
    IN
    IF Len(fields) # 2 THEN Bail("malformed sums line", <<line>>)
    ELSE LET artifact_fields == Split(TrimEndMatches(fields[2], DOT_ZIP), "_")
         IN
         IF Len(artifact_fields) # 4
         THEN Bail("malformed sums artifact name", <<fields[2]>>)
         ELSE IF artifact_fields[3] # LINUX THEN Continue
         ELSE IF artifact_fields[4] # ARCH THEN Continue
         ELSE IF artifact_fields[2] # version
         THEN Bail("version does not match", <<artifact_fields[2], version>>)
         ELSE Break(HexDecode(fields[1]))

\* ScanLine with the lines of another shape skipped
ScanLine_skip_malformed(line, version) ==
    LET fields == SplitWhitespace(line)
    IN
    IF Len(line) = 0 THEN Continue
    ELSE IF Len(fields) # 2 THEN Continue
    ELSE LET artifact_fields == Split(TrimEndMatches(fields[2], DOT_ZIP), "_")
         IN
         IF Len(artifact_fields) # 4 THEN Continue
         ELSE IF artifact_fields[3] # LINUX THEN Continue
         ELSE IF artifact_fields[4] # ARCH THEN Continue
         ELSE IF artifact_fields[2] # version
         THEN Bail("version does not match", <<artifact_fields[2], version>>)
         ELSE Break(HexDecode(fields[1]))

ScanLine(line, version) ==
    LET fields == SplitWhitespace(line)
    IN
    IF Len(line) = 0 THEN Continue
    ELSE IF Len(fields) # 2 THEN Bail("malformed sums line", <<line>>)
    ELSE LET artifact_fields == Split(TrimEndMatches(fields[2], DOT_ZIP), "_")
         IN
         IF Len(artifact_fields) # 4
         THEN Bail("malformed sums artifact name", <<fields[2]>>)
         ELSE LET ver == artifact_fields[2]
                  os == artifact_fields[3]
                  arch == artifact_fields[4]
              IN
              IF os # LINUX THEN Continue
              ELSE IF arch # ARCH THEN Continue
              ELSE IF ver # version
              THEN Bail("version does not match", <<ver, version>>)
              ELSE Break(HexDecode(fields[1]))

\* the loop over the lines, then the test of sums_opt  (security.rs:61-115)
RECURSIVE ScanLines(_, _)
ScanLines(lines, version) ==
    IF lines = <<>>
    THEN Err("no sums found", <<version, ARCH>>)
    ELSE LET scanned == ScanLine(Head(lines), version)
         IN  IF scanned.step = "continue"
             THEN ScanLines(Tail(lines), version)
             ELSE scanned.out

SumsChecker_new(sums_raw, version) == ScanLines(Split(sums_raw, "\n"), version)

\* SumsChecker::check with the comparison lost: every archive is accepted
SumsChecker_check_unchecked(sums, src) == Ok(<<>>)

(***************************************************************************)
(* SumsChecker::check (security.rs:119-129); sums is the stored digest.    *)
(***************************************************************************)
SumsChecker_check(sums, src) ==
    LET digest == Sha256(src)
    IN  IF digest # sums
        THEN Err("digest does not match",
                 <<HexEncode(digest), HexEncode(sums)>>)
        ELSE Ok(<<>>)

(***************************************************************************)
(* SigChecker (security.rs:28-55).  A key is a name; gpgrv's keyring is    *)
(* the set of keys read from the armoured asset.  A signature is the pair  *)
(* <<signing key, signed text>>, anything else is not a signature.         *)
(***************************************************************************)
HashiCorpKey == "security@hashicorp.com"

\* the embedded asset: absent, the armoured key, or bytes that are no key
Assets == {"absent", "armoured", "unreadable"}

\* Keyring::append_keys_from_armoured: the keys the bytes hold
KeysOf(asset) == IF asset = "armoured" THEN {HashiCorpKey} ELSE {}

\* SigChecker::new: fails only when the asset is absent; the result of
\* append_keys_from_armoured is dropped                   (security.rs:30-46)
SigChecker_new(asset) ==
    IF asset = "absent"
    THEN Err("failed to load the embedded gpg key", <<>>)
    ELSE Ok(KeysOf(asset))

\* gpgrv::verify_detached(sig, text, keyring)
VerifyDetached(sig, text, keyring) ==
    /\ Len(sig) = 2
    /\ sig[1] \in keyring
    /\ sig[2] = text

\* SigChecker::check with the verdict of verify_detached dropped
SigChecker_check_unchecked(keyring, sig, sums) == Ok(<<>>)

\* SigChecker::check                                      (security.rs:49-54)
SigChecker_check(keyring, sig, sums) ==
    IF VerifyDetached(sig, sums, keyring) THEN Ok(<<>>)
    ELSE Err("signature verification failed", <<>>)

(***************************************************************************)
(* What the release server and the build can hold: the inputs of get.      *)
(***************************************************************************)
V123 == <<"1", ".", "2", ".", "3">>
V124 == <<"1", ".", "2", ".", "4">>
Versions == {V123, V124}

DARWIN == <<"d", "a", "r", "w", "i", "n">>

\* nomad_<ver>_<os>_<arch>.zip
ArtifactName(ver, os, arch) ==
    NOMAD \o <<"_">> \o ver \o <<"_">> \o os \o <<"_">> \o arch \o DOT_ZIP

NomadFile == [name |-> NOMAD, data |-> <<127, 69, 76>>]
AlteredFile == [name |-> NOMAD, data |-> <<127, 69, 77>>]
LicenseFile == [name |-> <<"l", "i", "c", "e", "n", "s", "e">>,
                data |-> <<77, 80>>]

ZipGood == ZipBytes(<<NomadFile>>)
\* ZipGood with its last byte altered
ZipAltered == ZipBytes(<<AlteredFile>>)
ZipEmpty == ZipBytes(<<>>)
ZipTwo == ZipBytes(<<NomadFile, LicenseFile>>)
ZipOtherName == ZipBytes(<<LicenseFile>>)
ZipGarbage == <<60, 104, 49, 62>>

ZipBodies == {ZipGood, ZipAltered, ZipEmpty, ZipTwo, ZipOtherName, ZipGarbage}

SumsLine(hex, space, name) == hex \o space \o name

\* the lines a served manifest is made of
Lines ==
    { <<>>,
      SumsLine(HexEncode(Sha256(ZipGood)), <<" ", " ">>,
               ArtifactName(V123, LINUX, ARCH)),
      SumsLine(HexEncode(Sha256(ZipTwo)), <<"\t">>,
               ArtifactName(V123, LINUX, ARCH)),
      SumsLine(HexEncode(Sha256(ZipGood)), <<" ", " ">>,
               ArtifactName(V124, LINUX, ARCH)),
      SumsLine(HexEncode(Sha256(ZipGood)), <<" ", " ">>,
               ArtifactName(V123, DARWIN, ARCH)),
      ArtifactName(V123, LINUX, ARCH),
      SumsLine(HexEncode(Sha256(ZipGood)), <<" ", " ">>,
               NOMAD \o <<"_">> \o V123 \o <<"_">> \o LINUX \o DOT_ZIP),
      SumsLine(<<"A", "B">>, <<" ", " ">>, ArtifactName(V123, LINUX, ARCH)),
      SumsLine(<<"a", "b", "c">>, <<" ", " ">>,
               ArtifactName(V123, LINUX, ARCH)) }

Manifests ==
    { JoinLines(ls) : ls \in UNION { [1..n -> Lines] : n \in 0..MaxLines } }

\* a response: io = "err" when send() or the body read fails
Failed == [io |-> "err", status |-> 0, body |-> <<>>]
NotFound == [io |-> "ok", status |-> 404, body |-> <<>>]
Found(body) == [io |-> "ok", status |-> 200, body |-> body]

\* a test of the status that lets the client errors pass
IsSuccess_below_500(status) == status \in 200..499

\* StatusCode::is_success
IsSuccess(status) == status \in 200..299
\* the status as Display prints it
StatusText(status) ==
    IF status = 404
    THEN <<"4", "0", "4", " ", "N", "o", "t", " ", "F", "o", "u", "n", "d">>
    ELSE <<"2", "0", "0", " ", "O", "K">>

\* the signatures a server can hold beside the manifest it serves
Signatures(served) ==
    { <<HashiCorpKey, served>>,
      <<HashiCorpKey, served \o <<"\n">> >>,
      <<"mallory", served>>,
      <<>> }

\* what a request of the given kind can be answered with
Responses(kind, w) ==
    {Failed, NotFound} \cup
    CASE kind = "sums" -> {Found(m) : m \in Manifests}
      [] kind = "sig" ->
             {Found(g) : g \in Signatures(IF w.sums.some THEN w.sums.val.body
                                          ELSE <<>>)}
      [] kind = "zip" -> {Found(z) : z \in ZipBodies}

(***************************************************************************)
(* The install command: its arguments, its options, the checkpoint answer  *)
(* and the files it writes.  A path is the sequence of its components.     *)
(***************************************************************************)
\* the flags of the install subcommand                    (main.rs:36-53)
Flags == {"skip-sums", "skip-sig", "ignore-alerts", "ignore-outdated"}

\* install.rs:14-17
DEFAULT_NOMAD_OUT == <<"/", "usr", "local", "bin">>
DEFAULT_NOMAD_SERVICE_OUT == <<"/", "etc", "systemd", "system">>

\* a relative directory given to --out
RelativeOut == <<"bin">>

\* the ArgMatches of the install subcommand: the flags that are present and
\* the values of --version, --out and --service-out
ArgMatches ==
    [flags : SUBSET Flags,
     version : {None} \cup {Some(v) : v \in Versions},
     out : {None, Some(RelativeOut)},
     service_out : {None}]

\* ArgMatches::is_present: false for a name that is no argument of the command
IsPresent(a, name) == name \in a.flags

\* Option::unwrap_or
UnwrapOr(o, default) == IF o.some THEN o.val ELSE default

\* InstallOpts::new and new_impl                          (install.rs:34-75)
InstallOpts_new(check_integrity, check_sig, out, service_out, ignore_alerts, ignore_outdated) ==
    [check_integrity |-> UnwrapOr(check_integrity, TRUE),
     check_sig |-> UnwrapOr(check_sig, TRUE),
     out |-> UnwrapOr(out, DEFAULT_NOMAD_OUT),
     service_out |-> UnwrapOr(service_out, DEFAULT_NOMAD_SERVICE_OUT),
     ignore_alerts |-> UnwrapOr(ignore_alerts, FALSE),
     ignore_outdated |-> UnwrapOr(ignore_outdated, FALSE)]

\* install.rs:111-116
InstallOpts_default == InstallOpts_new(None, None, None, None, None, None)

\* InstallOpts::from(&ArgMatches)                        (install.rs:119-138)
InstallOpts_from(a) ==
    InstallOpts_new(Some(~IsPresent(a, "skip-sums")),
                    Some(~IsPresent(a, "ski-sig")),
                    a.out,
                    a.service_out,
                    Some(IsPresent(a, "ignore-alerts")),
                    Some(IsPresent(a, "ignore-outdated")))

\* InstallCmd::new(&ArgMatches)                       (cmd/install.rs:45-67)
InstallCmd_new(a) ==
    [version |-> a.version,
     check_integrity |-> ~IsPresent(a, "skip-sums"),
     check_sig |-> ~IsPresent(a, "skip-sig"),
     out |-> UnwrapOr(a.out, DEFAULT_NOMAD_OUT),
     service_out |-> UnwrapOr(a.service_out, DEFAULT_NOMAD_SERVICE_OUT),
     ignore_alerts |-> IsPresent(a, "ignore-alerts"),
     ignore_outdated |-> IsPresent(a, "ignore-outdated")]

\* ReleaseGetOpts::from: the two options are copied      (releases.rs:29-37)
ReleaseGetOpts_from(src) ==
    [check_integrity |-> src.check_integrity, check_sig |-> src.check_sig]

\* the answer of the checkpoint api, or its failure (checkpoint.rs:12-22,
\* 120-147)
CheckFailed ==
    [ok |-> FALSE, current_version |-> <<>>, outdated |-> FALSE,
     alerts |-> <<>>]
CheckResponse(current_version, outdated, alerts) ==
    [ok |-> TRUE, current_version |-> current_version,
     outdated |-> outdated, alerts |-> alerts]
CheckAlert == <<"a", "l", "e", "r", "t">>
CheckResponses ==
    {CheckFailed} \cup
    {CheckResponse(V124, o, al) : o \in BOOLEAN, al \in {<<>>, <<CheckAlert>>}}

\* the gate with the test on the alerts left out
CheckGate_outdated_only(r, o) ==
    IF r.outdated /\ ~o.ignore_outdated THEN "outdated" ELSE "ok"

\* install.rs:154-177: what the answer of checkpoint lets install do
CheckGate(r, o) ==
    IF r.outdated /\ ~o.ignore_outdated THEN "outdated"
    ELSE IF r.alerts # <<>> /\ ~o.ignore_alerts THEN "alerts"
    ELSE "ok"

\* install.rs:154-177: the events logged on the way through the gate
CheckLog(r, o) ==
    (IF r.outdated
     THEN IF o.ignore_outdated
          THEN <<Warn("checkpoint says version is outdated, ignoring")>>
          ELSE <<>>
     ELSE <<Info("is the latest release")>>)
    \o (IF CheckGate(r, o) # "outdated" /\ r.alerts # <<>> /\ o.ignore_alerts
        THEN <<Warn("alerts; ignoring")>>
        ELSE <<>>)

\* Path::is_absolute, canonicalize of a relative path that exists, push
Cwd == <<"/", "root">>
IsAbsolute(path) == Len(path) > 0 /\ path[1] = "/"
Canonicalize(path) == Cwd \o path
Push(path, name) == Append(path, name)

\* install.rs:184-194: the path written to, in a file system where the
\* directory is_dir or not
OutPath(dir, is_dir, name) ==
    LET out == IF ~IsAbsolute(dir) THEN Canonicalize(dir) ELSE dir
    IN  IF is_dir THEN Push(out, name) ELSE out

\* what the file at the path may hold before install opens it: nothing, less
\* than the bytes written, more than the bytes written
OldFiles == {None, Some(<<9>>), Some(<<9, 8, 7, 6, 5>>)}

\* Write::write returns how many bytes it took: all of them, or fewer
Writtens(data) == {Len(data), Len(data) \div 2}

\* install.rs:196-201: the file after OpenOptions write(true).create(true)
\* and one write of n bytes of data at its start; what the file held beyond
\* the n bytes stays
WriteFile(old, data, n) ==
    LET before == IF old.some THEN old.val ELSE <<>>
        len == IF Len(before) > n THEN Len(before) ELSE n
    IN  [i \in 1..len |-> IF i <= n THEN data[i] ELSE before[i]]

\* install.rs:212-234: the service file, its ExecStart line naming the binary
ServiceFileContents(out) ==
    <<"[Unit]", "[Service]", "ExecStart">> \o out \o <<"[Install]">>

(***************************************************************************)
(* The state of the program and of what it talks to.                       *)
(***************************************************************************)
VARIABLES
    world,      \* what the server answers and what the build embeds, each
                \* fixed from the first time it is asked for
    version,    \* the version asked for
    pc,         \* where get stands: idle, sums, sig, sigcheck, zip, check,
                \* extract, done, error
    opts,       \* ReleaseGetOpts of the call
    sums,       \* Option<Sha256Sums> of get
    sig,        \* the Sha256SumsSig, once fetched
    zip,        \* the NomadZip, once fetched
    sig_args,   \* the (sig, sums) SigChecker::check was called with
    sums_args,  \* the text SumsChecker::new was called with
    expected,   \* the digest held by the SumsChecker
    requests,   \* the requests of this call, in order, with their answers
    log,        \* the info and warn events of this call, in order
    result,     \* what get returned
    prev,       \* the calls that have returned, oldest first
    entry,      \* how install was entered: "install_do" from main, or
                \* "InstallCmd" (new, then run); "none" when get is called
                \* on its own
    args,       \* the ArgMatches of the install subcommand
    iopts,      \* the InstallOpts, or the InstallCmd, built from args
    ipc,        \* where install stands: none, args, check, get, in_get,
                \* service, done, error
    res,        \* the CheckResponse of checkpoint, once asked
    writes,     \* the files written, in order: path, old and new content
    ilog,       \* the info and warn events of install, in order
    iresult     \* what install returned

\* the state of get and the state of install around it
getvars == <<world, version, pc, opts, sums, sig, zip, sig_args, sums_args,
             expected, requests, log, result, prev>>
ivars == <<entry, args, iopts, ipc, res, writes, ilog, iresult>>
vars == <<world, version, pc, opts, sums, sig, zip, sig_args, sums_args,
          expected, requests, log, result, prev,
          entry, args, iopts, ipc, res, writes, ilog, iresult>>

NoResult == [kind |-> "none", err |-> "", ctx |-> <<>>, bytes |-> <<>>]
Returned(bytes) == [kind |-> "ok", err |-> "", ctx |-> <<>>, bytes |-> bytes]
Raised(kind, ctx) == [kind |-> "err", err |-> kind, ctx |-> ctx, bytes |-> <<>>]
Panicked == [kind |-> "panic", err |-> "unwrap on None", ctx |-> <<>>,
             bytes |-> <<>>]

\* ReleaseGetOpts::new and Default                      (releases.rs:22-46)
ReleaseGetOpts_new(check_integrity, check_sig) ==
    [check_integrity |-> check_integrity, check_sig |-> check_sig]
ReleaseGetOpts_default == ReleaseGetOpts_new(TRUE, TRUE)

\* get called on its own: install is not running
NoInstall ==
    /\ entry = "none"
    /\ args = [flags |-> {}, version |-> None, out |-> None,
               service_out |-> None]
    /\ iopts = InstallOpts_default
    /\ ipc = "none"
    /\ res = None
    /\ writes = <<>>
    /\ ilog = <<>>
    /\ iresult = NoResult

Init ==
    /\ world = [sums |-> None, sig |-> None, zip |-> None, asset |-> None]
    /\ version \in Versions
    /\ NoInstall
    /\ pc = "idle"
    /\ opts = ReleaseGetOpts_default
    /\ sums = None
    /\ sig = None
    /\ zip = None
    /\ sig_args = None
    /\ sums_args = None
    /\ expected = None
    /\ requests = <<>>
    /\ log = <<>>
    /\ result = NoResult
    /\ prev = <<>>

\* the error is recorded and get goes on to the archive request
Fail_goes_on(kind, ctx) ==
    /\ result' = Raised(kind, ctx)
    /\ pc' = "zip"

\* get ends with an error: `?` or bail!
Fail(kind, ctx) ==
    /\ result' = Raised(kind, ctx)
    /\ pc' = "error"

(***************************************************************************)
(* get is called (releases.rs:65-70): opts is given or defaulted.  The      *)
(* program makes one acquisition; a further one against the same server is *)
(* modelled only to repeat an acquisition that has integrity checking      *)
(* disabled, with integrity checking disabled again.                       *)
(***************************************************************************)
CallGet(o) ==
    /\ pc = "idle"
    /\ Len(prev) < MaxCalls
    /\ prev # <<>> =>
          /\ ~prev[Len(prev)].opts.check_integrity
          /\ o.some /\ ~o.val.check_integrity
    /\ opts' = IF o.some THEN o.val ELSE ReleaseGetOpts_default
    /\ pc' = "sums"
    /\ sums' = None
    /\ sig' = None
    /\ zip' = None
    /\ sig_args' = None
    /\ sums_args' = None
    /\ expected' = None
    /\ requests' = <<>>
    /\ log' = <<>>
    /\ result' = NoResult
    /\ UNCHANGED <<world, version, prev>>

\* get called on its own
Call(o) == CallGet(o) /\ UNCHANGED ivars

\* RemoteArtifact::get of one kind (artifacts.rs:32-122): the request, its
\* answer r, and Ok(body) or the error
Fetched(kind, r) ==
    /\ r \in (IF world[kind].some THEN {world[kind].val}
              ELSE Responses(kind, world))
    /\ world' = [world EXCEPT ![kind] = Some(r)]
    /\ requests' = Append(requests, [kind |-> kind, resp |-> r])

FetchResult(kind, r) ==
    IF r.io # "ok" THEN Err("request failed", <<>>)
    ELSE IF ~IsSuccess(r.status)
    THEN Err(CASE kind = "sums" -> "failed to get checksums"
               [] kind = "sig" -> "failed to get checksums signature"
               [] kind = "zip" -> "failed to get nomad zip archive",
             <<version, StatusText(r.status)>>)
    ELSE Ok(r.body)

(***************************************************************************)
(* The steps of get (releases.rs:72-130).                                  *)
(***************************************************************************)
\* the test of releases.rs:72 made on either option
FetchesSums_or_sig(o) == o.check_integrity \/ o.check_sig

\* the manifest is fetched only when the signature is checked too
FetchesSums_if_sig(o) == o.check_integrity /\ o.check_sig

\* the test of releases.rs:72: the manifest is fetched
FetchesSums(o) == o.check_integrity

\* get without the signature branch: no signature is ever requested
FetchesSig_never(o) == FALSE

\* the test of releases.rs:76: the signature is fetched and checked
FetchesSig(o) == o.check_sig

\* the test of releases.rs:97: the digest of the archive is checked
ChecksSums(o) == o.check_integrity

\* the log of releases.rs:95-98 without the warning
ZipLog_silent(o) == <<Info("downloaded nomad zip archive")>>

\* releases.rs:95-98: what is logged once the archive is downloaded
ZipLog(o) ==
    IF ~ChecksSums(o)
    THEN <<Info("downloaded nomad zip archive"),
           Warn("not checking the integrity of the zip archive")>>
    ELSE <<Info("downloaded nomad zip archive")>>

\* releases.rs:72, 88-90: no integrity check, sums is None
SkipSums ==
    /\ pc = "sums"
    /\ ~FetchesSums(opts)
    /\ sums' = None
    /\ pc' = "zip"
    /\ UNCHANGED <<world, version, opts, sig, zip, sig_args, sums_args,
                   expected, requests, log, result, prev>>
    /\ UNCHANGED ivars

\* releases.rs:72-77: Sha256Sums::get, then the branch on check_sig
FetchSums ==
    /\ pc = "sums"
    /\ FetchesSums(opts)
    /\ \E r \in Responses("sums", world) :
          /\ Fetched("sums", r)
          /\ LET got == FetchResult("sums", r)
             IN  IF ~got.ok
                 THEN /\ Fail(got.err, got.ctx)
                      /\ UNCHANGED <<sums, log>>
                 ELSE /\ sums' = Some(got.val)
                      /\ result' = result
                      /\ IF ~FetchesSig(opts)
                         THEN /\ log' = log \o
                                   <<Info("downloaded checksums"),
                                     Warn("not checking the signature of the shasums")>>
                              /\ pc' = "zip"
                         ELSE /\ log' = Append(log, Info("downloaded checksums"))
                              /\ pc' = "sig"
    /\ UNCHANGED <<version, opts, sig, zip, sig_args, sums_args, expected,
                   prev>>
    /\ UNCHANGED ivars

\* releases.rs:79-80: Sha256SumsSig::get
FetchSig ==
    /\ pc = "sig"
    /\ \E r \in Responses("sig", world) :
          /\ Fetched("sig", r)
          /\ LET got == FetchResult("sig", r)
             IN  IF ~got.ok
                 THEN /\ Fail(got.err, got.ctx)
                      /\ UNCHANGED <<sig, log>>
                 ELSE /\ sig' = Some(got.val)
                      /\ log' = Append(log,
                                    Info("downloaded checksums signature"))
                      /\ result' = result
                      /\ pc' = "sigcheck"
    /\ UNCHANGED <<version, opts, sums, zip, sig_args, sums_args, expected,
                   prev>>
    /\ UNCHANGED ivars

\* releases.rs:82-84: SigChecker::new, then check(sig.inner(), sums.inner())
CheckSig ==
    /\ pc = "sigcheck"
    /\ \E a \in (IF world.asset.some THEN {world.asset.val} ELSE Assets) :
          /\ world' = [world EXCEPT !.asset = Some(a)]
          /\ LET sig_checker == SigChecker_new(a)
             IN  IF ~sig_checker.ok
                 THEN /\ Fail(sig_checker.err, sig_checker.ctx)
                      /\ UNCHANGED <<sig_args, log>>
                 ELSE LET checked == SigChecker_check(sig_checker.val,
                                                      sig.val, sums.val)
                      IN  /\ sig_args' = Some(<<sig.val, sums.val>>)
                          /\ IF ~checked.ok
                             THEN /\ Fail(checked.err, checked.ctx)
                                  /\ log' = log
                             ELSE /\ log' = Append(log,
                                               Info("checksums signature ok"))
                                  /\ result' = result
                                  /\ pc' = "zip"
    /\ UNCHANGED <<version, opts, sums, sig, zip, sums_args, expected,
                   requests, prev>>
    /\ UNCHANGED ivars

\* releases.rs:94-99: NomadZip::get, then the branch on check_integrity
FetchZip ==
    /\ pc = "zip"
    /\ \E r \in Responses("zip", world) :
          /\ Fetched("zip", r)
          /\ LET got == FetchResult("zip", r)
             IN  IF ~got.ok
                 THEN /\ Fail(got.err, got.ctx)
                      /\ UNCHANGED <<zip, log>>
                 ELSE /\ zip' = Some(got.val)
                      /\ result' = result
                      /\ log' = log \o ZipLog(opts)
                      /\ pc' = IF ~ChecksSums(opts) THEN "extract"
                               ELSE "check"
    /\ UNCHANGED <<version, opts, sums, sig, sig_args, sums_args, expected,
                   prev>>
    /\ UNCHANGED ivars

\* releases.rs:100-102: SumsChecker::new(sums.unwrap().inner(), version),
\* then check(zip.inner())
CheckSums ==
    /\ pc = "check"
    /\ IF ~sums.some
       THEN /\ result' = Panicked
            /\ pc' = "error"
            /\ UNCHANGED <<sums_args, expected, log>>
       ELSE LET sums_checker == SumsChecker_new(sums.val, version)
            IN  /\ sums_args' = Some(sums.val)
                /\ IF ~sums_checker.ok
                   THEN /\ Fail(sums_checker.err, sums_checker.ctx)
                        /\ UNCHANGED <<expected, log>>
                   ELSE LET checked == SumsChecker_check(sums_checker.val,
                                                         zip.val)
                        IN  /\ expected' = Some(sums_checker.val)
                            /\ IF ~checked.ok
                               THEN /\ Fail(checked.err, checked.ctx)
                                    /\ log' = log
                               ELSE /\ log' = Append(log, Info("zip archive ok"))
                                    /\ result' = result
                                    /\ pc' = "extract"
    /\ UNCHANGED <<world, version, opts, sums, sig, zip, sig_args, requests,
                   prev>>
    /\ UNCHANGED ivars

\* the extraction without the tests on the number of entries: the entry
\* named "nomad" is looked up among all of them
ExtractResult_any_count(bytes) ==
    LET archive == ZipArchive_new(bytes)
        hits == {i \in 1..Len(archive.files) : archive.files[i].name = NOMAD}
    IN  IF ~archive.ok THEN Raised("invalid Zip archive", <<>>)
        ELSE IF hits = {}
        THEN Raised("specified file not found in archive", <<>>)
        ELSE Returned(archive.files[CHOOSE i \in hits : TRUE].data)

\* releases.rs:109: the extraction with the is_empty test left out
ExtractResult_no_empty_test(bytes) ==
    LET archive == ZipArchive_new(bytes)
    IN  IF ~archive.ok THEN Raised("invalid Zip archive", <<>>)
        ELSE IF Len(archive.files) # 1
        THEN Raised("malformed zip archive", <<>>)
        ELSE IF archive.files[1].name # NOMAD
        THEN Raised("specified file not found in archive", <<>>)
        ELSE Returned(archive.files[1].data)

\* releases.rs:116: zip.file_names(), the names of the entries in order
FileNames(files) == [i \in 1..Len(files) |-> files[i].name]

\* releases.rs:113-117: the warning that lists the entries of the archive
WarnFiles(files) ==
    <<"warn", "zip archive: files", Len(files), FileNames(files)>>

\* releases.rs:107-129: the archive is opened and its one entry read
ExtractResult(bytes) ==
    LET archive == ZipArchive_new(bytes)
    IN  IF ~archive.ok THEN Raised("invalid Zip archive", <<>>)
        ELSE IF Len(archive.files) = 0 THEN Raised("empty archive", <<>>)
        ELSE IF Len(archive.files) # 1
        THEN Raised("malformed zip archive", <<>>)
        ELSE IF archive.files[1].name # NOMAD
        THEN Raised("specified file not found in archive", <<>>)
        ELSE Returned(archive.files[1].data)

Extract ==
    /\ pc = "extract"
    /\ LET archive == ZipArchive_new(zip.val)
           out == ExtractResult(zip.val)
       IN  /\ result' = out
           /\ pc' = IF out.kind = "ok" THEN "done" ELSE "error"
           /\ log' = IF archive.ok /\ Len(archive.files) > 1
                     THEN Append(log, WarnFiles(archive.files))
                     ELSE IF out.kind = "ok"
                     THEN Append(log, Info("unzipped the nomad artifact"))
                     ELSE log
    /\ UNCHANGED <<world, version, opts, sums, sig, zip, sig_args, sums_args,
                   expected, requests, prev>>
    /\ UNCHANGED ivars

\* get has returned to its caller
Return ==
    /\ pc \in {"done", "error"}
    /\ prev' = Append(prev, [opts |-> opts, requests |-> requests,
                             log |-> log, result |-> result])
    /\ pc' = "idle"
    /\ UNCHANGED <<world, version, opts, sums, sig, zip, sig_args, sums_args,
                   expected, requests, log, result>>
    /\ UNCHANGED ivars

Next ==
    \/ \E o \in {None} \cup {Some(ReleaseGetOpts_new(ci, cs)) :
                               ci \in BOOLEAN, cs \in BOOLEAN} : Call(o)
    \/ SkipSums
    \/ FetchSums
    \/ FetchSig
    \/ CheckSig
    \/ FetchZip
    \/ CheckSums
    \/ Extract
    \/ Return

Spec == Init /\ [][Next]_vars

(***************************************************************************)
(* install: main builds InstallOpts from the arguments and calls           *)
(* install_do (main.rs:122-129, install.rs:141-266); InstallCmd::new and   *)
(* InstallCmd::run (cmd/install.rs:45-67, 96-216) do the same from an      *)
(* InstallCmd.  The server holds one manifest, for one of the versions, or *)
(* none.                                                                   *)
(***************************************************************************)
GoodLine(v) ==
    SumsLine(HexEncode(Sha256(ZipGood)), <<" ", " ">>,
             ArtifactName(v, LINUX, ARCH))
InstallServed == {NotFound} \cup {Found(GoodLine(v)) : v \in Versions}

InitInstall ==
    /\ \E r \in InstallServed :
          world = [sums |-> Some(r), sig |-> None, zip |-> None,
                   asset |-> None]
    /\ version = <<>>
    /\ pc = "idle"
    /\ opts = ReleaseGetOpts_default
    /\ sums = None
    /\ sig = None
    /\ zip = None
    /\ sig_args = None
    /\ sums_args = None
    /\ expected = None
    /\ requests = <<>>
    /\ log = <<>>
    /\ result = NoResult
    /\ prev = <<>>
    /\ entry \in {"install_do", "InstallCmd"}
    /\ args \in ArgMatches
    /\ iopts = InstallOpts_default
    /\ ipc = "args"
    /\ res = None
    /\ writes = <<>>
    /\ ilog = <<>>
    /\ iresult = NoResult

\* install ends with an error: `?` or bail!
InstallFail(kind, ctx) ==
    /\ iresult' = Raised(kind, ctx)
    /\ ipc' = "error"

\* main.rs:123 InstallOpts::from(args), or InstallCmd::new(args)
InstallParse ==
    /\ ipc = "args"
    /\ iopts' = IF entry = "install_do" THEN InstallOpts_from(args)
                ELSE InstallCmd_new(args)
    /\ ipc' = "check"
    /\ UNCHANGED getvars
    /\ UNCHANGED <<entry, args, res, writes, ilog, iresult>>

\* the version install was given: the parameter of install_do (main.rs:125)
\* or the field of the InstallCmd (cmd/install.rs:97)
VersionGiven == IF entry = "install_do" THEN args.version ELSE iopts.version

\* install.rs:148-179: checkpoint is asked, the version is settled, and
\* install goes on or bails on an outdated version or on alerts
InstallCheck ==
    /\ ipc = "check"
    /\ \E r \in CheckResponses :
          /\ res' = Some(r)
          /\ IF ~r.ok
             THEN /\ InstallFail("checkpoint request failed", <<>>)
                  /\ UNCHANGED <<version, ilog>>
             ELSE LET v == UnwrapOr(VersionGiven, r.current_version)
                      gate == CheckGate(r, iopts)
                  IN  /\ version' = v
                      /\ IF gate = "ok"
                         THEN /\ ilog' = ilog \o CheckLog(r, iopts) \o
                                    <<Info("attempting to install version")>>
                              /\ ipc' = "get"
                              /\ iresult' = iresult
                         ELSE /\ ilog' = ilog \o CheckLog(r, iopts)
                              /\ InstallFail(
                                    IF gate = "outdated"
                                    THEN "checkpoint says version is outdated"
                                    ELSE "alerts",
                                    <<v, r.current_version>>)
    /\ UNCHANGED <<world, pc, opts, sums, sig, zip, sig_args, sums_args,
                   expected, requests, log, result, prev>>
    /\ UNCHANGED <<entry, args, iopts, writes>>

\* install.rs:181: get(version, Some(ReleaseGetOpts::from(&opts))) is called
InstallGet ==
    /\ ipc = "get"
    /\ CallGet(Some(ReleaseGetOpts_from(iopts)))
    /\ ipc' = "in_get"
    /\ UNCHANGED <<entry, args, iopts, res, writes, ilog, iresult>>

\* one file is opened and written (install.rs:184-208, 236-261): the
\* directory resolves or not, is a directory or not, the file opens or not,
\* holds old from before, and the write takes n bytes of data
WriteOut(dir, name, data, canon_ok, is_dir, open_ok, old, n, short) ==
    LET file == [path |-> OutPath(dir, is_dir, name),
                 before |-> old,
                 data |-> data,
                 after |-> WriteFile(old, data, n)]
    IN  IF ~IsAbsolute(dir) /\ ~canon_ok
        THEN [err |-> "canonicalize failed", wrote |-> FALSE, file |-> file]
        ELSE IF ~open_ok
        THEN [err |-> "open failed", wrote |-> FALSE, file |-> file]
        ELSE IF n # Len(data)
        THEN [err |-> short, wrote |-> TRUE, file |-> file]
        ELSE [err |-> "", wrote |-> TRUE, file |-> file]

\* install.rs:181-210: the error of get is returned, or the binary is written
InstallBinary ==
    /\ ipc = "in_get"
    /\ pc = "idle"
    /\ prev # <<>>
    /\ IF result.kind # "ok"
       THEN /\ iresult' = result
            /\ ipc' = "error"
            /\ UNCHANGED <<writes, ilog>>
       ELSE \E canon_ok \in BOOLEAN, is_dir \in BOOLEAN, open_ok \in BOOLEAN,
               old \in OldFiles, n \in Writtens(result.bytes) :
               LET w == WriteOut(iopts.out, "nomad", result.bytes, canon_ok,
                                 is_dir, open_ok, old, n,
                                 "nomad binary: written bytes instead")
               IN  /\ writes' = IF w.wrote THEN Append(writes, w.file)
                                ELSE writes
                   /\ IF w.err # ""
                      THEN /\ InstallFail(w.err, <<>>)
                           /\ ilog' = Append(ilog,
                                 Info("nomad binary ready for installation"))
                      ELSE /\ ipc' = "service"
                           /\ iresult' = iresult
                           /\ ilog' = ilog \o
                                 <<Info("nomad binary ready for installation"),
                                   Info("nomad binary installed")>>
    /\ UNCHANGED getvars
    /\ UNCHANGED <<entry, args, iopts, res>>

\* install.rs:212-265: the service file is written and install returns Ok
InstallService ==
    /\ ipc = "service"
    /\ \E canon_ok \in BOOLEAN, is_dir \in BOOLEAN, open_ok \in BOOLEAN,
          old \in OldFiles,
          n \in Writtens(ServiceFileContents(writes[1].path)) :
          LET w == WriteOut(iopts.service_out, "nomad.service",
                            ServiceFileContents(writes[1].path), canon_ok,
                            is_dir, open_ok, old, n,
                            "nomad service file: written bytes instead")
          IN  /\ writes' = IF w.wrote THEN Append(writes, w.file)
                           ELSE writes
              /\ IF w.err # ""
                 THEN /\ InstallFail(w.err, <<>>)
                      /\ ilog' = ilog
                 ELSE /\ ipc' = "done"
                      /\ iresult' = Returned(<<>>)
                      /\ ilog' = Append(ilog,
                                        Info("nomad service file installed"))
    /\ UNCHANGED getvars
    /\ UNCHANGED <<entry, args, iopts, res>>

NextInstall ==
    \/ InstallParse
    \/ InstallCheck
    \/ InstallGet
    \/ SkipSums
    \/ FetchSums
    \/ FetchSig
    \/ CheckSig
    \/ FetchZip
    \/ CheckSums
    \/ Extract
    \/ Return
    \/ InstallBinary
    \/ InstallService

SpecInstall == InitInstall /\ [][NextInstall]_vars

(***************************************************************************)
(* The claims.                                                             *)
(***************************************************************************)
\* the call has returned (or is about to): its result stands
Finished == pc \in {"done", "error"}

\* the requests of the given kind made by this call
RequestsOf(kind) == {i \in 1..Len(requests) : requests[i].kind = kind}

\* C1: with integrity checking enabled, get returns a payload only if the
\* SHA-256 digest of the downloaded archive bytes equals, byte for byte, the
\* digest SumsChecker::new selected from the manifest; whenever the digest of
\* the archive differs from the selected one, the call ends in an error that
\* carries no payload.
C1_DigestGate ==
    /\ (opts.check_integrity /\ result.kind = "ok") =>
          /\ zip.some /\ expected.some
          /\ Sha256(zip.val) = expected.val
    /\ (opts.check_integrity /\ expected.some /\ zip.some
        /\ Sha256(zip.val) # expected.val) =>
          /\ result.kind = "err"
          /\ result.bytes = <<>>

\* a payload returned with integrity checking enabled
C1_Witness ==
    /\ pc = "done"
    /\ opts.check_integrity
    /\ result.kind = "ok"
    /\ Sha256(zip.val) = expected.val

\* C2: with integrity and signature checking both enabled, get returns a
\* payload only if the signature it fetched is a signature by the trusted key
\* over exactly the manifest text of the first (and only) manifest request,
\* and that same text is the one SumsChecker::new selects the digest from.
C2_SignedManifest ==
    (opts.check_integrity /\ opts.check_sig /\ result.kind = "ok") =>
       /\ RequestsOf("sums") = {1}
       /\ sig_args.some /\ sums_args.some /\ sig.some
       /\ sig_args.val[1] = sig.val
       /\ sig_args.val[2] = requests[1].resp.body
       /\ sig.val = <<HashiCorpKey, requests[1].resp.body>>
       /\ sums_args.val = requests[1].resp.body

\* a payload returned after the signature over the manifest was verified
C2_Witness ==
    /\ pc = "done"
    /\ opts.check_integrity /\ opts.check_sig
    /\ result.kind = "ok"
    /\ sig_args.some
    /\ sig_args.val = <<sig.val, sums.val>>

(***************************************************************************)
(* The manifest as the claims describe it, line by line.                   *)
(***************************************************************************)
LineFields(line) == SplitWhitespace(line)
LineName(line) == Split(TrimEndMatches(LineFields(line)[2], DOT_ZIP), "_")

\* <digest><whitespace><product>_<version>_<os>_<arch>.zip
HasShape(line) == Len(LineFields(line)) = 2 /\ Len(LineName(line)) = 4
Malformed(line) == line # <<>> /\ ~HasShape(line)
ForPlatform(line) ==
    HasShape(line) /\ LineName(line)[3] = LINUX /\ LineName(line)[4] = ARCH
ForTriple(line, v) == ForPlatform(line) /\ LineName(line)[2] = v
\* a line the scan passes over: empty, or of the shape and for another platform
PassedOver(line) == line = <<>> \/ (HasShape(line) /\ ~ForPlatform(line))

IsHexText(s) == Len(s) % 2 = 0 /\ \A k \in 1..Len(s) : IsHexChar(s[k])
LowerHex(s) ==
    [k \in 1..Len(s) |->
        IF \E i \in 1..16 : HexUpper[i] = s[k]
        THEN HexLower[CHOOSE i \in 1..16 : HexUpper[i] = s[k]]
        ELSE s[k]]

\* SumsChecker::new has been called in this call, on these lines
Parsed == sums_args.some
ParsedLines == Split(sums_args.val, "\n")
NewFailed == Parsed /\ ~expected.some /\ result.kind = "err"
NewFailedWith(kind) == NewFailed /\ result.err = kind

\* every line is empty or has the shape, with a first field that is hex
WellFormedManifest ==
    \A i \in 1..Len(ParsedLines) :
       \/ ParsedLines[i] = <<>>
       \/ HasShape(ParsedLines[i]) /\ IsHexText(LineFields(ParsedLines[i])[1])

\* C3 as stated, on the manifests every line of which is well-formed: whenever
\* the manifest holds a line for the requested (version, linux, ARCH),
\* SumsChecker::new succeeds and stores the hex decoding of the first field
\* of the first such line.
C3_AnyMatchingLine ==
    (Parsed /\ WellFormedManifest) =>
      \A i \in 1..Len(ParsedLines) :
         (/\ ForTriple(ParsedLines[i], version)
          /\ \A j \in 1..(i - 1) : ~ForTriple(ParsedLines[j], version))
         => /\ expected.some
            /\ HexEncode(expected.val) = LowerHex(LineFields(ParsedLines[i])[1])

\* C3, amended: when the manifest holds a line for the requested (version,
\* linux, ARCH), every line before the first such line is empty or a line of
\* the shape for another os or arch, and the first field of that line is hex
\* of even length, SumsChecker::new succeeds and stores exactly the hex
\* decoding of that first field.
C3_FirstReachedMatch ==
    Parsed =>
      \A i \in 1..Len(ParsedLines) :
         (/\ ForTriple(ParsedLines[i], version)
          /\ \A j \in 1..(i - 1) : PassedOver(ParsedLines[j])
          /\ IsHexText(LineFields(ParsedLines[i])[1]))
         => /\ expected.some
            /\ HexEncode(expected.val) = LowerHex(LineFields(ParsedLines[i])[1])

\* two lines for the triple with different digests: the first one is stored
C3_Witness ==
    /\ Parsed /\ expected.some
    /\ Len(ParsedLines) = 2
    /\ ForTriple(ParsedLines[1], version)
    /\ ForTriple(ParsedLines[2], version)
    /\ LineFields(ParsedLines[1])[1] # LineFields(ParsedLines[2])[1]
    /\ HexEncode(expected.val) = LowerHex(LineFields(ParsedLines[1])[1])

\* C4: when the scan reaches a line for the target os and arch whose version
\* is not the requested one, SumsChecker::new fails with the version-mismatch
\* error, also when a later line is for the requested triple.
C4_FailFast ==
    Parsed =>
      \A i \in 1..Len(ParsedLines) :
         (/\ ForPlatform(ParsedLines[i])
          /\ ~ForTriple(ParsedLines[i], version)
          /\ \A j \in 1..(i - 1) : PassedOver(ParsedLines[j]))
         => NewFailedWith("version does not match")

\* a mismatching line followed by a line for the requested triple
C4_Witness ==
    /\ NewFailedWith("version does not match")
    /\ Len(ParsedLines) = 2
    /\ ForPlatform(ParsedLines[1])
    /\ ~ForTriple(ParsedLines[1], version)
    /\ ForTriple(ParsedLines[2], version)
    /\ IsHexText(LineFields(ParsedLines[2])[1])

\* C5 as stated, on the manifests every line of which is well-formed:
\* whenever the manifest holds no line for the requested triple,
\* SumsChecker::new fails with "no sums found" and nothing else.
C5_AlwaysNotFound ==
    (Parsed /\ WellFormedManifest
     /\ \A i \in 1..Len(ParsedLines) : ~ForTriple(ParsedLines[i], version))
    => NewFailedWith("no sums found")

\* C5, amended: a manifest with no line for the requested triple never yields
\* a digest; the error is "no sums found" when every line is empty or a line
\* of the shape for another os or arch (otherwise the scan stops at the first
\* malformed line or version mismatch, with that error).
C5_NotFound ==
    Parsed =>
      /\ (\A i \in 1..Len(ParsedLines) : ~ForTriple(ParsedLines[i], version))
         => NewFailed
      /\ (\A i \in 1..Len(ParsedLines) : PassedOver(ParsedLines[i]))
         => NewFailedWith("no sums found")

\* a manifest of lines for another platform and empty lines: not found
C5_Witness ==
    /\ NewFailedWith("no sums found")
    /\ \E i \in 1..Len(ParsedLines) : ParsedLines[i] = <<>>
    /\ \E i \in 1..Len(ParsedLines) :
          HasShape(ParsedLines[i]) /\ ~ForPlatform(ParsedLines[i])

\* C6 as stated: a non-empty line of another shape makes SumsChecker::new
\* fail wherever it stands in the manifest.
C6_AnyMalformedLine ==
    (Parsed /\ \E i \in 1..Len(ParsedLines) : Malformed(ParsedLines[i]))
    => NewFailed

\* C6, amended: a non-empty line of another shape makes SumsChecker::new fail
\* unless an earlier line is for the requested triple (the scan stops at that
\* line and never examines the lines after it).
C6_ReachedMalformedLine ==
    Parsed =>
      \A i \in 1..Len(ParsedLines) :
         (/\ Malformed(ParsedLines[i])
          /\ \A j \in 1..(i - 1) : ~ForTriple(ParsedLines[j], version))
         => NewFailed

\* a malformed line after a well-formed line of another platform
C6_Witness ==
    /\ NewFailed
    /\ Len(ParsedLines) = 2
    /\ HasShape(ParsedLines[1])
    /\ ~ForPlatform(ParsedLines[1])
    /\ Malformed(ParsedLines[2])

\* C7: the digest SumsChecker::new stores has the width of a SHA-256 digest;
\* a hex field of another length is refused by the parser.
C7_DigestWidth ==
    (Parsed /\ expected.some) => Len(expected.val) = Len(Sha256(<<>>))

(***************************************************************************)
(* The options, the warning and the extraction.                            *)
(***************************************************************************)
IntegrityWarning == Warn("not checking the integrity of the zip archive")
Logged(events, e) == \E k \in 1..Len(events) : events[k] = e
LoggedWarn(events) == \E k \in 1..Len(events) : events[k][1] = "warn"

\* C8: two calls of get with integrity checking disabled, against the same
\* server, issue the same requests (the archive only) and return the same
\* result, whatever check_sig is in each.
C8_SigOptionIgnored ==
    \A i, j \in 1..Len(prev) :
       (~prev[i].opts.check_integrity /\ ~prev[j].opts.check_integrity) =>
          /\ prev[i].requests = prev[j].requests
          /\ prev[i].result = prev[j].result
          /\ \A k \in 1..Len(prev[i].requests) :
                prev[i].requests[k].kind = "zip"

\* two returned calls without integrity checking that differ in check_sig
C8_Witness ==
    /\ Len(prev) = 2
    /\ ~prev[1].opts.check_integrity /\ ~prev[2].opts.check_integrity
    /\ prev[1].opts.check_sig # prev[2].opts.check_sig
    /\ prev[1].result.kind = "ok"
    /\ Len(prev[2].requests) = 1

\* C9 as stated: a call of get with integrity checking disabled has logged a
\* warning by the time it ends, whatever its outcome.
C9_AlwaysWarns ==
    (Finished /\ ~opts.check_integrity) => LoggedWarn(log)

\* C9, amended: a call of get with integrity checking disabled has logged the
\* integrity warning by the time it ends exactly when the archive request
\* succeeded, whatever the outcome of the extraction; it logs no warning when
\* the archive request fails.
C9_WarnsOnceDownloaded ==
    (Finished /\ ~opts.check_integrity) =>
       /\ Logged(log, IntegrityWarning) <=> zip.some
       /\ ~zip.some => ~LoggedWarn(log)

\* the warning was logged and the extraction failed afterwards
C9_Witness ==
    /\ pc = "error"
    /\ ~opts.check_integrity
    /\ zip.some
    /\ result.err = "empty archive"
    /\ Logged(log, IntegrityWarning)

C11_ErrorsCarryNames ==
    [][pc = "extract" =>
         LET archive == ZipArchive_new(zip.val)
             n == Len(archive.files)
         IN  /\ (archive.ok /\ n > 1) =>
                   /\ result'.kind = "err"
                   /\ result'.ctx = FileNames(archive.files)
             /\ (archive.ok /\ n = 1 /\ archive.files[1].name # NOMAD) =>
                   /\ result'.kind = "err"
                   /\ result'.ctx = <<archive.files[1].name, NOMAD>>]_vars

\* C11, amended: the extraction step tells its failures apart by the error: an
\* archive of no entry fails with "empty archive", an archive of more than
\* one entry fails with "malformed zip archive", an archive of one entry under
\* another name fails with the archive library's not-found error; none of the
\* three errors holds a name, and the number and full list of the entry names
\* of an archive of several entries go to a warning of the log only.
C11_ErrorsDistinctNamesLogged ==
    [][pc = "extract" =>
         LET archive == ZipArchive_new(zip.val)
             n == Len(archive.files)
         IN  /\ (archive.ok /\ n = 0) =>
                   /\ result' = Raised("empty archive", <<>>)
                   /\ log' = log
             /\ (archive.ok /\ n > 1) =>
                   /\ result' = Raised("malformed zip archive", <<>>)
                   /\ log' = Append(log, <<"warn", "zip archive: files", n,
                                           FileNames(archive.files)>>)
             /\ (archive.ok /\ n = 1 /\ archive.files[1].name # NOMAD) =>
                   /\ result' =
                         Raised("specified file not found in archive", <<>>)
                   /\ log' = log]_vars

\* an archive of two entries was refused and its two names were logged
C11_Witness ==
    /\ pc = "error"
    /\ result = Raised("malformed zip archive", <<>>)
    /\ Len(log) > 0
    /\ log[Len(log)] = <<"warn", "zip archive: files", 2,
                         <<NOMAD, LicenseFile.name>>>>

\* C12: a failure at any step of get ends the acquisition with the error: once
\* the result is an error no later step runs, no further request is made and
\* no payload is returned; the only step left is the return to the caller.
C12_FailureEndsGet ==
    /\ [](result.kind \in {"err", "panic"} =>
             /\ pc \in {"error", "idle"}
             /\ result.bytes = <<>>)
    /\ [][result.kind \in {"err", "panic"} =>
             \/ /\ pc = "error"
                /\ pc' = "idle"
                /\ UNCHANGED <<world, opts, sums, sig, zip, sig_args,
                               sums_args, expected, requests, log, result>>
             \/ /\ pc = "idle"
                /\ pc' = "sums"
                /\ result' = NoResult
                /\ requests' = <<>>]_vars

\* the signature was refused: get ended after two requests, without the
\* archive request, the digest comparison or the extraction
C12_Witness ==
    /\ pc = "error"
    /\ result.err = "signature verification failed"
    /\ Len(requests) = 2
    /\ RequestsOf("zip") = {}
    /\ ~sums_args.some
    /\ result.bytes = <<>>

\* C13: a fetch answered with a status that is not a success status fails with
\* the error of its kind, which carries the version and the status, and is the
\* last request of the call; no request is retried: each kind is requested at
\* most once, so a call makes at most three requests.
C13_StatusErrorNoRetry ==
    /\ Len(requests) <= 3
    /\ \A kind \in {"sums", "sig", "zip"} :
          Cardinality(RequestsOf(kind)) <= 1
    /\ \A i \in 1..Len(requests) :
          LET r == requests[i].resp
          IN  (r.io = "ok" /\ r.status \notin 200..299) =>
                 /\ i = Len(requests)
                 /\ result.kind = "err"
                 /\ result.bytes = <<>>
                 /\ result.ctx = <<version, StatusText(r.status)>>
                 /\ result.err =
                       CASE requests[i].kind = "sums" ->
                              "failed to get checksums"
                         [] requests[i].kind = "sig" ->
                              "failed to get checksums signature"
                         [] requests[i].kind = "zip" ->
                              "failed to get nomad zip archive"

\* the third request of a call, for the archive, was answered 404
C13_Witness ==
    /\ pc = "error"
    /\ Len(requests) = 3
    /\ requests[3].kind = "zip"
    /\ requests[3].resp = NotFound
    /\ result.err = "failed to get nomad zip archive"
    /\ result.ctx = <<version, StatusText(404)>>

\* C15 as stated: with integrity checking enabled the manifest is parsed
\* before the signature or the archive is requested: a manifest that fails to
\* parse has aborted the call with no signature request and no archive
\* request made.
C15_ParseBeforeRequests ==
    (opts.check_integrity /\ NewFailed) =>
       /\ RequestsOf("sig") = {}
       /\ RequestsOf("zip") = {}

\* the kinds of the requests of the call, in the order they were made
RequestKinds == [i \in 1..Len(requests) |-> requests[i].kind]
IsPrefix(s, t) == Len(s) <= Len(t) /\ s = SubSeq(t, 1, Len(s))

\* C15, amended: with integrity checking enabled the order of the steps is
\* manifest fetch, signature fetch and verification (when check_sig is set),
\* archive fetch, manifest parse, digest comparison, extraction.  The
\* manifest is parsed only after the archive has been fetched: when the
\* manifest has been parsed, and so when it has failed to parse, the
\* signature request (when check_sig is set) and the archive request have
\* been made and answered with success, and the signature has been verified.
C15_ParseAfterRequests ==
    opts.check_integrity =>
       /\ IsPrefix(RequestKinds,
                   IF opts.check_sig THEN <<"sums", "sig", "zip">>
                   ELSE <<"sums", "zip">>)
       /\ RequestsOf("zip") # {} =>
             (opts.check_sig =>
                 /\ sig_args = Some(<<sig.val, sums.val>>)
                 /\ SigChecker_check(KeysOf(world.asset.val),
                                     sig.val, sums.val).ok)
       /\ Parsed =>
             /\ sums_args = Some(sums.val)
             /\ zip.some
             /\ RequestsOf("zip") # {}
       /\ expected.some => Parsed
       /\ result.kind = "ok" => expected.some

\* a manifest failed to parse after the three requests had been made
C15_Witness ==
    /\ opts.check_integrity /\ opts.check_sig
    /\ NewFailed
    /\ RequestKinds = <<"sums", "sig", "zip">>
    /\ zip.some

\* C17: the unwrap of the optional manifest at the digest comparison never
\* fails: whatever check_integrity and check_sig are, a call that reaches the
\* digest comparison holds the manifest it fetched, and no call panics.
C17_UnwrapNeverFails ==
    /\ result.kind # "panic"
    /\ pc = "check" => sums.some
    /\ Parsed => sums.some /\ opts.check_integrity
    /\ (pc = "extract" /\ ~sums.some) => ~ChecksSums(opts)

\* the digest comparison was reached with the signature check disabled
C17_Witness ==
    /\ pc = "check"
    /\ opts.check_integrity /\ ~opts.check_sig
    /\ sums.some
    /\ zip.some

\* C16: SigChecker::new fails with the keyring-load error whenever the trusted
\* key cannot be loaded, when the embedded resource is absent and when its
\* bytes cannot be read as ASCII-armoured keys alike; no verification is
\* attempted with a keyring into which the trusted key was not loaded.
C16_KeyringLoadedOrError ==
    (world.asset.some /\ world.asset.val # "armoured") =>
       /\ result = Raised("failed to load the embedded gpg key", <<>>)
       /\ ~sig_args.some

\* get has been called by install
GetCalled == ipc = "in_get" \/ prev # <<>>

\* C14: install run from main with --skip-sig and without --skip-sums skips
\* the signature check: the check_sig option install_do passes to get is
\* false exactly when the skip-sig flag is present, and with the flag present
\* no signature is requested and none is verified.
C14_SkipSigHonoured ==
    (entry = "install_do" /\ GetCalled) =>
       /\ opts.check_sig = ~IsPresent(args, "skip-sig")
       /\ (IsPresent(args, "skip-sig") /\ ~IsPresent(args, "skip-sums")) =>
             /\ RequestsOf("sig") = {}
             /\ ~sig_args.some

\* C18: install never calls get and never writes the binary or the service
\* file when checkpoint reports the version outdated and ignore_outdated is
\* false, or reports an alert and ignore_alerts is false: it has returned an
\* error, no release request has been made and no file has been written.
C18_GateBeforeGet ==
    (/\ res.some
     /\ res.val.ok
     /\ \/ res.val.outdated /\ ~iopts.ignore_outdated
        \/ res.val.alerts # <<>> /\ ~iopts.ignore_alerts) =>
       /\ ipc = "error"
       /\ iresult.kind = "err"
       /\ ~GetCalled
       /\ pc = "idle"
       /\ requests = <<>>
       /\ \A kind \in {"sig", "zip"} : ~world[kind].some
       /\ writes = <<>>

\* install_do bailed on an alert for a version that is not outdated
C18_Witness ==
    /\ entry = "install_do"
    /\ ipc = "error"
    /\ res.some /\ res.val.ok
    /\ ~res.val.outdated
    /\ res.val.alerts # <<>>
    /\ ~iopts.ignore_alerts
    /\ iresult.err = "alerts"

\* C19: after install has returned success the file at the resolved binary
\* path holds exactly the bytes of the payload, whatever it held before.
C19_BinaryIsPayload ==
    iresult.kind = "ok" =>
       /\ Len(writes) = 2
       /\ writes[1].data = result.bytes
       /\ writes[1].after = result.bytes
====
